---- MODULE Spec2Model ----
(***************************************************************************)
(* Model of the resume-tailor backend (src/index.js).  The source holds    *)
(* two deployments of the same Express application:                        *)
(*   - the in-memory variant   (lines 1-204, multer.memoryStorage)         *)
(*   - the disk-storage variant (lines 205-422, multer.diskStorage)        *)
(* A request to POST /api/tailor-resume passes through the multer          *)
(* middleware upload.single("resume") and then through the async route     *)
(* handler, which suspends at its awaits (extraction, completion call).    *)
(* Strings are sequences: filenames are sequences of one-character         *)
(* strings, file bytes and texts are sequences of integers (bytes, code    *)
(* points).                                                                *)
(***************************************************************************)
EXTENDS Integers, Sequences, FiniteSets, TLC

VARIABLES variant, now, uploadsDir, req

vars == <<variant, now, uploadsDir, req>>

\* ---------------------------------------------------------------- bounds
MaxRequests == 2
MaxClock == 1

Requests == 1..MaxRequests

\* ------------------------------------------------------ string helpers
\* String.prototype.toLowerCase, on the letters the filenames use
LowerChar(c) ==
  CASE c = "C" -> "c" [] c = "V" -> "v" [] c = "P" -> "p" [] c = "D" -> "d"
    [] c = "F" -> "f" [] c = "T" -> "t" [] c = "X" -> "x" [] OTHER -> c

toLowerCase(s) == [i \in 1..Len(s) |-> LowerChar(s[i])]

\* String.prototype.lastIndexOf(ch): 0-based index of the last ch, -1 if none
lastIndexOf(s, ch) ==
  IF \E i \in 1..Len(s) : s[i] = ch
    THEN (CHOOSE i \in 1..Len(s) : s[i] = ch /\ \A j \in (i+1)..Len(s) : s[j] # ch) - 1
    ELSE -1

\* String.prototype.slice(start): a negative start counts from the end
slice(s, start) ==
  LET n == Len(s)
      from == IF start < 0 THEN (IF n + start < 0 THEN 0 ELSE n + start)
              ELSE (IF start > n THEN n ELSE start)
  IN SubSeq(s, from + 1, n)

\* path.extname of a basename: empty when there is no dot, when the only dot
\* is the first character, and for ".."
extname(s) ==
  LET idx == lastIndexOf(s, ".")
  IN IF idx <= 0 \/ s = <<".", ".">> THEN <<>> ELSE slice(s, idx)

\* String.prototype.trim on code points (space, tab, LF, CR)
IsSpace(c) == c \in {32, 9, 10, 13}

RECURSIVE trimStart(_)
trimStart(t) ==
  IF t # <<>> /\ IsSpace(Head(t)) THEN trimStart(Tail(t)) ELSE t

RECURSIVE trimEnd(_)
trimEnd(t) ==
  IF t # <<>> /\ IsSpace(t[Len(t)]) THEN trimEnd(SubSeq(t, 1, Len(t) - 1)) ELSE t

trim(t) == trimEnd(trimStart(t))

\* Buffer.prototype.toString('utf-8'): an ASCII byte is its code point, a
\* byte that starts no valid sequence becomes U+FFFD
Utf8Char(b) == IF b < 128 THEN b ELSE 65533

toStringUtf8(bytes) == [i \in 1..Len(bytes) |-> Utf8Char(bytes[i])]

\* Array.prototype.join(sep) over strings
RECURSIVE join(_, _)
join(items, sep) ==
  IF items = <<>> THEN <<>>
  ELSE IF Len(items) = 1 THEN items[1]
  ELSE items[1] \o sep \o join(Tail(items), sep)

\* ------------------------------------------------------------- inputs
\* Uploaded filenames (file.originalname), one character per element
CvPdf == <<"c", "v", ".", "p", "d", "f">>
CvPdfUpper == <<"C", "V", ".", "P", "D", "F">>
CvDocx == <<"c", "v", ".", "d", "o", "c", "x">>
CvTxt == <<"c", "v", ".", "t", "x", "t">>
CvExe == <<"c", "v", ".", "e", "x", "e">>
NoDot == <<"c", "v">>

\* File contents.  format is what the bytes really are (whatever the name
\* says); a PDF has pages of text items, a DOCX has its raw text, a text file
\* is its bytes.
PdfBytes == <<37, 80, 68, 70>>
ZipBytes == <<80, 75>>
NoPages == <<>>
NoText == <<>>

Pdf(pages) == [format |-> "pdf", bytes |-> PdfBytes, pages |-> pages, value |-> NoText]
Docx(value) == [format |-> "docx", bytes |-> ZipBytes, pages |-> NoPages, value |-> value]
Plain(bytes) == [format |-> "text", bytes |-> bytes, pages |-> NoPages, value |-> NoText]

TextPdf == Pdf(<< << <<65>>, <<66>> >>, << <<67>> >> >>)
ScannedPdf == Pdf(<< <<>> >>)
TextDocx == Docx(<<65, 66>>)
AsciiTxt == Plain(<<65, 32, 66>>)
EmptyDoc == Plain(<<>>)

\* jobDescription field of the multipart body: absent, "" or a text
JdAbsent == [present |-> FALSE, value |-> <<>>]
JdEmpty == [present |-> TRUE, value |-> <<>>]
JdText == [present |-> TRUE, value |-> <<74, 68>>]

fileSizeLimit == 10 * 1024 * 1024

Upload(hasFile, name, size, doc, jd) ==
  [hasFile |-> hasFile, originalname |-> name, size |-> size, doc |-> doc, jobDescription |-> jd]

NoUpload == Upload(FALSE, <<>>, 0, EmptyDoc, JdAbsent)

\* The requests a client sends: the filenames (accepted and not) with a PDF
\* content, the contents under accepted names, a file over the size limit,
\* the job-description shapes, and a request without a file.
Uploads ==
     { Upload(TRUE, n, 1024, TextPdf, JdText) : n \in {CvPdf, CvPdfUpper, CvExe, NoDot} }
  \cup { Upload(TRUE, CvPdf, 1024, d, JdText) : d \in {ScannedPdf, AsciiTxt} }
  \cup { Upload(TRUE, CvDocx, 1024, TextDocx, JdText),
         Upload(TRUE, CvTxt, 1024, AsciiTxt, JdText),
         Upload(TRUE, CvPdf, fileSizeLimit + 1, TextPdf, JdText),
         Upload(TRUE, CvPdf, 1024, TextPdf, JdAbsent),
         Upload(TRUE, CvPdf, 1024, TextPdf, JdEmpty),
         Upload(FALSE, <<>>, 0, EmptyDoc, JdText) }

\* ------------------------------------------------------- upload gate
allowedTypes == { <<".", "p", "d", "f">>, <<".", "d", "o", "c">>,
                  <<".", "d", "o", "c", "x">>, <<".", "t", "x", "t">> }

\* a fileFilter that calls cb(null, true) in both arms
fileFilterAcceptsAll(originalname) == TRUE

\* fileFilter of the in-memory variant
fileFilterMemory(originalname) ==
  LET ext == slice(toLowerCase(originalname), lastIndexOf(originalname, "."))
  IN ext \in allowedTypes

\* fileFilter of the disk-storage variant
fileFilterDisk(originalname) ==
  LET ext == toLowerCase(extname(originalname))
  IN ext \in allowedTypes

\* limits.fileSize of the in-memory variant; the disk-storage variant passes
\* no limits to multer, so no size is too large there
exceedsLimit(v, size) ==
  IF v = "memory" THEN size > fileSizeLimit ELSE FALSE

\* diskStorage filename: `${Date.now()}-${file.originalname}` in uploadsDir
filename(t, originalname) == [ts |-> t, name |-> originalname]

NoPath == [ts |-> -1, name |-> <<>>]

\* ---------------------------------------------------- text extractor
Threw == [ok |-> FALSE, text |-> <<>>]
Returned(text) == [ok |-> TRUE, text |-> text]

\* pdf-parse: data.text starts every page with a blank line and appends the
\* page's text items; anything that is not a PDF makes it throw
RECURSIVE renderPages(_)
renderPages(pages) ==
  IF pages = <<>> THEN <<>>
  ELSE <<10, 10>> \o join(Head(pages), <<>>) \o renderPages(Tail(pages))

pdfParse(buffer) ==
  IF buffer.format = "pdf" THEN Returned(renderPages(buffer.pages)) ELSE Threw

\* mammoth.extractRawText: result.value of a DOCX; throws on anything else
extractRawText(buffer) ==
  IF buffer.format = "docx" THEN Returned(buffer.value) ELSE Threw

\* which branch of extractTextFromBuffer a filename takes
branchOf(originalname) ==
  LET ext == slice(toLowerCase(originalname), lastIndexOf(originalname, "."))
  IN CASE ext = <<".", "p", "d", "f">> -> "pdf"
       [] ext \in { <<".", "d", "o", "c", "x">>, <<".", "d", "o", "c">> } -> "doc"
       [] ext = <<".", "t", "x", "t">> -> "txt"
       [] OTHER -> "unsupported"

\* extractTextFromBuffer of the in-memory variant; every throw inside is
\* rethrown by its catch
extractTextFromBuffer(buffer, originalname) ==
  LET b == branchOf(originalname)
  IN CASE b = "pdf" -> pdfParse(buffer)
       [] b = "doc" -> extractRawText(buffer)
       [] b = "txt" -> Returned(toStringUtf8(buffer.bytes))
       [] OTHER -> Threw

\* the page loop of extractTextFromFile: items joined by " ", "\n" per page
RECURSIVE pageLoop(_)
pageLoop(pages) ==
  IF pages = <<>> THEN <<>>
  ELSE join(Head(pages), <<32>>) \o <<10>> \o pageLoop(Tail(pages))

\* extractTextFromFile of the disk-storage variant, on the bytes read from
\* the file: pdfjs getDocument rejects whatever is not a PDF
extractTextFromFile(data) ==
  IF data.format = "pdf" THEN Returned(pageLoop(data.pages)) ELSE Threw

\* the strategy the disk-storage variant applies, whatever the filename
branchOfFile(originalname) == "pdf"

\* ------------------------------------------------------ file system
existsSync(dir, path) == path \in DOMAIN dir

writeFile(dir, path, doc) ==
  [p \in DOMAIN dir \cup {path} |-> IF p = path THEN doc ELSE dir[p]]

unlinkSync(dir, path) == [p \in DOMAIN dir \ {path} |-> dir[p]]

\* a catch block that answers without removing the upload
catchWithoutCleanup(v, dir, file, path) == dir

\* the clean-up of the catch block: the disk-storage variant removes
\* req.file.path when it exists, the in-memory variant has nothing to remove
catchCleanup(v, dir, file, path) ==
  IF v = "disk" /\ file /\ existsSync(dir, path) THEN unlinkSync(dir, path) ELSE dir

\* --------------------------------------------------------- responses
BodyError == {"error"}
BodyErrorMessage == {"error", "message"}
BodySuccess == {"success", "tailoredResume"}
BodyHtml == {}

NoPrompt == [resumeText |-> <<>>, jobDescription |-> <<>>]

Fresh ==
  [pc |-> "idle", upload |-> NoUpload, file |-> FALSE, path |-> NoPath,
   data |-> EmptyDoc, strategy |-> "none", resumeText |-> <<>>,
   called |-> FALSE, prompt |-> NoPrompt, tailored |-> FALSE,
   status |-> 0, body |-> {}, kind |-> "none", sent |-> 0]

\* res.status(code).json(body): the request is answered
respond(q, code, body, kind) ==
  [q EXCEPT !.pc = "done", !.status = code, !.body = body, !.kind = kind,
            !.sent = q.sent + 1]

\* Express's default error handler answers an error passed to next(err) by
\* the multer middleware: no error middleware is registered, the error has
\* no status, so the response is 500 with an HTML body
defaultErrorHandler(q, kind) == respond(q, 500, BodyHtml, kind)

\* the catch block's response
catchRespond(q, kind) == respond(q, 500, BodyErrorMessage, kind)

\* JavaScript truthiness of req.body.jobDescription
truthy(jd) == jd.present /\ jd.value # <<>>

\* ----------------------------------------------------------- actions
Init ==
  /\ variant \in {"memory", "disk"}
  /\ now = 0
  /\ uploadsDir = [p \in {} |-> EmptyDoc]
  /\ req = [r \in Requests |-> Fresh]

\* Date.now() advances
Tick ==
  /\ now < MaxClock
  /\ now' = now + 1
  /\ UNCHANGED <<variant, uploadsDir, req>>

\* upload.single("resume"): multer receives the multipart body of request r.
\* The fileFilter runs first, then (in-memory variant) the size limit; the
\* disk-storage variant writes the file under its time-based name.  An error
\* goes to next(err) and the route handler never runs.
Receive(r, u) ==
  /\ req[r].pc = "idle"
  /\ LET q == [req[r] EXCEPT !.upload = u]
         accepted == IF variant = "memory" THEN fileFilterMemory(u.originalname)
                     ELSE fileFilterDisk(u.originalname)
         path == filename(now, u.originalname)
     IN IF ~u.hasFile
          THEN /\ req' = [req EXCEPT ![r] = [q EXCEPT !.pc = "handler"]]
               /\ UNCHANGED uploadsDir
        ELSE IF ~accepted
          THEN /\ req' = [req EXCEPT ![r] = defaultErrorHandler(q, "UnsupportedFileType")]
               /\ UNCHANGED uploadsDir
        ELSE IF exceedsLimit(variant, u.size)
          THEN /\ req' = [req EXCEPT ![r] = defaultErrorHandler(q, "PayloadTooLarge")]
               /\ UNCHANGED uploadsDir
        ELSE IF variant = "memory"
          THEN /\ req' = [req EXCEPT ![r] =
                            [q EXCEPT !.pc = "handler", !.file = TRUE, !.data = u.doc]]
               /\ UNCHANGED uploadsDir
        ELSE /\ req' = [req EXCEPT ![r] =
                          [q EXCEPT !.pc = "handler", !.file = TRUE, !.path = path]]
             /\ uploadsDir' = writeFile(uploadsDir, path, u.doc)
  /\ UNCHANGED <<variant, now>>

\* The route handler up to its first await: the two 400 checks, then the
\* call of the extractor.  extractTextFromFile reads the file synchronously;
\* when the file is gone the rejection is caught before any other request
\* runs.
HandlerStart(r) ==
  /\ req[r].pc = "handler"
  /\ LET q == req[r]
     IN IF ~q.file
          THEN /\ req' = [req EXCEPT ![r] = respond(q, 400, BodyError, "MissingResume")]
               /\ UNCHANGED uploadsDir
        ELSE IF ~truthy(q.upload.jobDescription)
          THEN /\ req' = [req EXCEPT ![r] = respond(q, 400, BodyError, "MissingJobDescription")]
               /\ UNCHANGED uploadsDir
        ELSE IF variant = "memory"
          THEN /\ req' = [req EXCEPT ![r] =
                            [q EXCEPT !.pc = "extracting",
                                      !.strategy = branchOf(q.upload.originalname)]]
               /\ UNCHANGED uploadsDir
        ELSE IF ~existsSync(uploadsDir, q.path)
          THEN /\ req' = [req EXCEPT ![r] =
                            catchRespond([q EXCEPT !.strategy = branchOfFile(q.upload.originalname)],
                                         "ExtractionFailed")]
               /\ uploadsDir' = catchCleanup(variant, uploadsDir, q.file, q.path)
        ELSE /\ req' = [req EXCEPT ![r] =
                          [q EXCEPT !.pc = "extracting",
                                    !.strategy = branchOfFile(q.upload.originalname),
                                    !.data = uploadsDir[q.path]]]
             /\ UNCHANGED uploadsDir
  /\ UNCHANGED <<variant, now>>

\* The extractor's promise settles.  A throw goes to the catch block; the
\* in-memory variant answers 400 on a blank text; otherwise the prompt is
\* built and openai.chat.completions.create is called.
ExtractReturn(r) ==
  /\ req[r].pc = "extracting"
  /\ LET q == req[r]
         res == IF variant = "memory"
                  THEN extractTextFromBuffer(q.data, q.upload.originalname)
                  ELSE extractTextFromFile(q.data)
         blank == res.text = <<>> \/ Len(trim(res.text)) = 0
     IN IF ~res.ok
          THEN /\ req' = [req EXCEPT ![r] = catchRespond(q, "ExtractionFailed")]
               /\ uploadsDir' = catchCleanup(variant, uploadsDir, q.file, q.path)
        ELSE IF variant = "memory" /\ blank
          THEN /\ req' = [req EXCEPT ![r] =
                            respond([q EXCEPT !.resumeText = res.text],
                                    400, BodyError, "EmptyExtraction")]
               /\ UNCHANGED uploadsDir
        ELSE /\ req' = [req EXCEPT ![r] =
                          [q EXCEPT !.pc = "completing", !.resumeText = res.text,
                                    !.called = TRUE,
                                    !.prompt = [resumeText |-> res.text,
                                                jobDescription |-> q.upload.jobDescription.value]]]
             /\ UNCHANGED uploadsDir
  /\ UNCHANGED <<variant, now>>

\* What the completion service does: a response with a choice, a response
\* without choices (response.choices[0] is undefined), or a thrown error
CompletionOutcomes == {"choice", "nochoices", "throws"}

\* The completion call settles.  On a choice the disk-storage variant
\* unlinks the upload and answers 200; unlinkSync throws when the file is
\* gone, and every throw goes to the catch block.
CompletionReturn(r, outcome) ==
  /\ req[r].pc = "completing"
  /\ LET q == req[r]
     IN IF outcome # "choice"
          THEN /\ req' = [req EXCEPT ![r] = catchRespond(q, "CompletionFailed")]
               /\ uploadsDir' = catchCleanup(variant, uploadsDir, q.file, q.path)
        ELSE IF variant = "memory"
          THEN /\ req' = [req EXCEPT ![r] =
                            respond([q EXCEPT !.tailored = TRUE], 200, BodySuccess, "Success")]
               /\ UNCHANGED uploadsDir
        ELSE IF ~existsSync(uploadsDir, q.path)
          THEN /\ req' = [req EXCEPT ![r] =
                            catchRespond([q EXCEPT !.tailored = TRUE], "UnlinkFailed")]
               /\ uploadsDir' = catchCleanup(variant, uploadsDir, q.file, q.path)
        ELSE /\ req' = [req EXCEPT ![r] =
                          respond([q EXCEPT !.tailored = TRUE], 200, BodySuccess, "Success")]
             /\ uploadsDir' = unlinkSync(uploadsDir, q.path)
  /\ UNCHANGED <<variant, now>>

Next ==
  \/ Tick
  \/ \E r \in Requests, u \in Uploads : Receive(r, u)
  \/ \E r \in Requests : HandlerStart(r)
  \/ \E r \in Requests : ExtractReturn(r)
  \/ \E r \in Requests, outcome \in CompletionOutcomes : CompletionReturn(r, outcome)

Spec == Init /\ [][Next]_vars

\* ------------------------------------------------------------ claims
\* the extension of a filename as the specification means it: the
\* lowercased text from the last dot on, empty when there is no dot
Extension(name) ==
  IF \E i \in 1..Len(name) : name[i] = "."
    THEN LET k == CHOOSE i \in 1..Len(name) :
                    name[i] = "." /\ \A j \in (i+1)..Len(name) : name[j] # "."
         IN [i \in 1..(Len(name) - k + 1) |-> LowerChar(name[k + i - 1])]
    ELSE <<>>

ExtPdf == <<".", "p", "d", "f">>
ExtDoc == <<".", "d", "o", "c">>
ExtDocx == <<".", "d", "o", "c", "x">>
ExtTxt == <<".", "t", "x", "t">>
SupportedExtensions == {ExtPdf, ExtDoc, ExtDocx, ExtTxt}

IsBlank(t) == \A i \in 1..Len(t) : t[i] \in {32, 9, 10, 13}

Done(r) == req[r].pc = "done"
InFlight(r) == req[r].pc \in {"handler", "extracting", "completing"}
\* request r is answered in this step
Answers(r) == req[r].pc # "done" /\ req'[r].pc = "done"
WroteFile(q) == q.path # NoPath

\* C1: in the disk-storage variant, the temporary file multer wrote for a
\* request no longer exists when that request is answered, with 200, 400 or
\* 500.
C1_FileGoneAtEveryResponse ==
  [][\A r \in Requests :
       (variant = "disk" /\ Answers(r) /\ WroteFile(req'[r])
          /\ req'[r].status \in {200, 400, 500})
       => req'[r].path \notin DOMAIN uploadsDir']_vars

\* C2: in the disk-storage variant, two requests in flight at the same time
\* never hold the same temporary file path.
C2_DistinctPaths ==
  \A r1 \in Requests, r2 \in Requests :
    (r1 # r2 /\ InFlight(r1) /\ InFlight(r2)
       /\ WroteFile(req[r1]) /\ WroteFile(req[r2]))
    => req[r1].path # req[r2].path

\* C3: in the disk-storage variant, when a request with a resume file and a
\* non-empty job description is answered with 200 or 500, no file exists at
\* its temporary path.
C3_FileGoneAt200And500 ==
  [][\A r \in Requests :
       (variant = "disk" /\ Answers(r) /\ req'[r].upload.hasFile
          /\ req'[r].upload.jobDescription.present
          /\ req'[r].upload.jobDescription.value # <<>>
          /\ req'[r].status \in {200, 500})
       => req'[r].path \notin DOMAIN uploadsDir']_vars

\* C3 witness: one accepted upload answered 200 and another answered 500
\* after the completion call threw, both temporary files gone
C3_Witness ==
  /\ variant = "disk"
  /\ \E r1 \in Requests, r2 \in Requests :
       /\ Done(r1) /\ req[r1].status = 200 /\ WroteFile(req[r1])
       /\ Done(r2) /\ req[r2].status = 500 /\ req[r2].kind = "CompletionFailed"
       /\ WroteFile(req[r2])
       /\ req[r1].path \notin DOMAIN uploadsDir
       /\ req[r2].path \notin DOMAIN uploadsDir

\* C4: in both variants, a request whose file is larger than 10 MiB is
\* rejected by the upload gate, and the completion call is never made for it.
C4_OversizeRejected ==
  \A r \in Requests :
    (req[r].pc # "idle" /\ req[r].upload.hasFile /\ req[r].upload.size > 10 * 1024 * 1024)
    => /\ Done(r)
       /\ req[r].kind \in {"PayloadTooLarge", "UnsupportedFileType"}
       /\ ~req[r].called

\* C5: in both variants, the completion call is only made with a resume text
\* that is not blank and a non-empty job description, and a request whose
\* extraction yields a blank text ends in an error without the call.
C5_NonBlankAtCompletion ==
  \A r \in Requests :
    /\ req[r].called =>
         /\ ~IsBlank(req[r].prompt.resumeText)
         /\ req[r].prompt.jobDescription # <<>>
    /\ (req[r].pc \in {"completing", "done"} /\ req[r].kind # "ExtractionFailed"
          /\ req[r].strategy # "none" /\ IsBlank(req[r].resumeText))
       => (Done(r) /\ req[r].status # 200 /\ ~req[r].called)

\* C6: a request that fails for an input-shape reason is answered 400, a
\* request that fails in extraction or in the completion call 500.
C6_StatusByErrorKind ==
  \A r \in Requests :
    Done(r) =>
      /\ req[r].kind \in {"MissingResume", "MissingJobDescription",
                          "UnsupportedFileType", "PayloadTooLarge"}
           => req[r].status = 400
      /\ req[r].kind \in {"ExtractionFailed", "CompletionFailed"}
           => req[r].status = 500

\* C7: every failure response carries both an error field and a message
\* field.
C7_TwoFieldErrorBody ==
  \A r \in Requests :
    (Done(r) /\ req[r].status # 200) => {"error", "message"} \subseteq req[r].body

\* C8: in both variants the extraction strategy follows the lowercased
\* extension (.pdf: PDF parser, .doc/.docx: document converter, .txt: UTF-8
\* decoding), and the text extracted from a .txt upload is its bytes.
C8_StrategyByExtension ==
  \A r \in Requests :
    LET ext == Extension(req[r].upload.originalname)
    IN req[r].strategy # "none" =>
         /\ ext = ExtPdf => req[r].strategy = "pdf"
         /\ ext \in {ExtDoc, ExtDocx} => req[r].strategy = "doc"
         /\ ext = ExtTxt => req[r].strategy = "txt"
         /\ (ext = ExtTxt /\ req[r].called) => req[r].resumeText = req[r].upload.doc.bytes

\* C9: in both variants, a file whose extension is not .pdf, .doc, .docx or
\* .txt (case-insensitively; a name without a dot included) is rejected by
\* the upload gate: the handler, the extraction and the completion call never
\* run for it.
C9_UnsupportedRejected ==
  \A r \in Requests :
    (req[r].pc # "idle" /\ req[r].upload.hasFile
       /\ Extension(req[r].upload.originalname) \notin SupportedExtensions)
    => /\ Done(r)
       /\ req[r].kind = "UnsupportedFileType"
       /\ req[r].strategy = "none"
       /\ ~req[r].called

\* C9 witness: an upload named without a dot and an upload named .exe have
\* both been rejected
C9_Witness ==
  \E r1 \in Requests, r2 \in Requests :
    /\ Done(r1) /\ req[r1].upload.hasFile /\ req[r1].upload.originalname = NoDot
    /\ Done(r2) /\ req[r2].upload.hasFile /\ req[r2].upload.originalname = CvExe
    /\ req[r1].kind = "UnsupportedFileType" /\ req[r2].kind = "UnsupportedFileType"

\* C10: a request is answered exactly once, and a request whose validation,
\* extraction and completion call all succeeded is answered 200.
C10_OneResponseSuccessIs200 ==
  \A r \in Requests :
    /\ req[r].sent <= 1
    /\ Done(r) => req[r].sent = 1
    /\ (Done(r) /\ req[r].tailored) => req[r].status = 200

====
